---- MODULE Spec2Model ----
(***************************************************************************)
(* Model of md/pandoc.py: the panflute filters h1hr, bq, graphviz, mermaid *)
(* and op, and the filter program that registers them with run_filters.    *)
(*                                                                         *)
(* A filter process reads one document node, runs the registered filters  *)
(* over it in order and finishes or dies with an exception.  The mermaid   *)
(* filter is modelled step by step (isfile, mkdir, write, mmdc, return)    *)
(* against a cache directory on disk that all processes share and that     *)
(* outlives each of them.                                                  *)
(***************************************************************************)
EXTENDS Integers, Sequences, FiniteSets, TLC

VARIABLES
    dirExists,  \* whether <MD_DIR>/mermaid-images exists
    files,      \* the regular files in <MD_DIR>/mermaid-images (full paths)
    renders,    \* history: per code text, how many times mmdc was run on it
    first,      \* history: per code text, the first image node returned for it
    pc,         \* per process: where it stands
    doc,        \* per process: the node it read
    cur,        \* per process: the node as rewritten so far
    idx,        \* per process: index into Filters of the next filter to run
    trail,      \* per process: the filters called on the node so far, in order
    call        \* per process: the filter call in progress or last finished

vars == <<dirExists, files, renders, first, pc, doc, cur, idx, trail, call>>

---------------------------------------------------------------------------
(* Bounds of the model *)

\* Header levels run over 1..MaxLevel
MaxLevel == 2
\* class lists have at most MaxClasses entries
MaxClasses == 2

Procs == {1, 2}

---------------------------------------------------------------------------
(* Document nodes (panflute elements), as records tagged with their type *)

None == [tag |-> "None"]
Pending == [tag |-> "Pending"]
Raise(e) == [tag |-> "Raise", exc |-> e]

Str(t) == [tag |-> "Str", text |-> t]
Para(c) == [tag |-> "Para", content |-> c]
BlockQuote(c) == [tag |-> "BlockQuote", content |-> c]
Div(c, cls) == [tag |-> "Div", classes |-> cls, attributes |-> <<>>, content |-> c]
Image(c, u, t) == [tag |-> "Image", content |-> c, url |-> u, title |-> t]
RawInline(t) == [tag |-> "RawInline", text |-> t, format |-> "html"]

\* 'x in elem.classes'
In(x, classes) == \E i \in DOMAIN classes : classes[i] = x

\* attributes are an ordered dict: a sequence of <<key, value>> with unique keys
HasKey(a, k) == \E i \in DOMAIN a : a[i][1] = k
\* attributes.get(k, d)
Get(a, k, d) == IF HasKey(a, k) THEN a[CHOOSE i \in DOMAIN a : a[i][1] = k][2] ELSE d
\* attributes[k] = v
Set(a, k, v) ==
    IF HasKey(a, k)
    THEN [i \in DOMAIN a |-> IF a[i][1] = k THEN <<k, v>> ELSE a[i]]
    ELSE Append(a, <<k, v>>)

---------------------------------------------------------------------------
(* The inputs: the nodes a document may hold *)

Texts == {"graph TD; A-->B", "a<b&c"}

ClassLists(A) == UNION {[1..n -> A] : n \in 0..MaxClasses}

P1 == Para(<<Str("one")>>)
P2 == Para(<<Str("two")>>)

Headers ==
    [tag : {"Header"}, level : 1..MaxLevel,
     attributes : {<<>>, <<<<"style", "color:red">>>>,
                   <<<<"style", "color:red">>, <<"lang", "en">>>>},
     content : {<<Str("Title")>>}]

Divs ==
    [tag : {"Div"}, classes : ClassLists({"bq", "std", "x"}),
     attributes : {<<<<"lang", "en">>>>},
     content : {<<P1, P2>>}]

CodeBlocks ==
    [tag : {"CodeBlock"}, classes : ClassLists({"mermaid", "graphviz"}),
     attributes : {<<>>, <<<<"caption", "Fig">>>>,
                   <<<<"width", "50">>, <<"caption", "Fig">>>>},
     text : Texts]

\* a code block that carries the class of the inline operator spans
OpBlock ==
    [tag |-> "CodeBlock", classes |-> <<"op">>, attributes |-> <<>>,
     text |-> "a<b&c"]

Codes ==
    [tag : {"Code"}, classes : ClassLists({"op", "cpp"}),
     attributes : {<<>>}, text : Texts]

Nodes ==
    Headers \cup Divs \cup CodeBlocks \cup Codes \cup {OpBlock, P1, Str("one")}

\* the blocks two concurrent processes are given
MermaidBlocks == {n \in CodeBlocks : n.classes = <<"mermaid">>}

---------------------------------------------------------------------------
(* The pure filters *)

H1Style == "border-bottom:1px solid #cccccc"

\* h1hr without the test of the level
h1hr_anyLevel(elem) ==
    IF elem.tag # "Header" THEN None
    ELSE [elem EXCEPT !.attributes = Set(@, "style", H1Style)]

h1hr(elem) ==
    IF elem.tag # "Header" THEN None
    ELSE IF elem.level # 1 THEN None
    ELSE [elem EXCEPT !.attributes = Set(@, "style", H1Style)]

\* bq with "'bq' in elem.classes" for "elem.classes == ['bq']"
bq_containsBq(elem) ==
    IF elem.tag # "Div" THEN None
    ELSE IF In("bq", elem.classes) THEN BlockQuote(elem.content)
    ELSE IF In("std", elem.classes)
         THEN Div(<<BlockQuote(elem.content)>>, elem.classes)
    ELSE None

bq(elem) ==
    IF elem.tag # "Div" THEN None
    ELSE IF elem.classes = <<"bq">> THEN BlockQuote(elem.content)
    ELSE IF In("std", elem.classes)
         THEN Div(<<BlockQuote(elem.content)>>, elem.classes)
    ELSE None

\* hashlib.sha1(x.encode(...)).hexdigest(), tabulated for the texts of the model
sha1(x) ==
    CASE x = "graph TD; A-->B" -> "90bf051b9b3df160543336b9e851e6fa32b03403"
      [] x = "a<b&c" -> "5d2c6150c10bb45774d2f801518fb30c6b06635f"

MD_DIR == "md"

\* pygraphviz is not imported, so the first statement of the body raises
graphviz(elem) ==
    IF elem.tag = "CodeBlock" /\ In("graphviz", elem.classes)
    THEN Raise("NameError")
    ELSE None

\* op that takes code blocks for inline code
op_anyCode(elem) ==
    IF elem.tag \in {"Code", "CodeBlock"} /\ In("op", elem.classes)
    THEN RawInline("<code><span class=\"op\">" \o elem.text \o "</span></code>")
    ELSE None

op(elem) ==
    IF elem.tag = "Code" /\ In("op", elem.classes)
    THEN RawInline("<code><span class=\"op\">" \o elem.text \o "</span></code>")
    ELSE None

---------------------------------------------------------------------------
(* mermaid: the values it computes from the node, and its cache on disk *)

mermaid_dir == MD_DIR \o "/mermaid-images"
\* caption = elem.attributes.get('caption', '')
caption(elem) == Get(elem.attributes, "caption", "")
\* a file name that takes the caption in
filename_withCaption(elem) == sha1(elem.text) \o caption(elem)
\* filename = sha1(code)
filename(elem) == sha1(elem.text)
src_file(elem) == mermaid_dir \o "/" \o filename(elem) \o ".mmd"
dst_img(elem) == mermaid_dir \o "/" \o filename(elem) \o ".svg"

\* isinstance(elem, pf.CodeBlock) and 'mermaid' in elem.classes
IsMermaid(elem) == elem.tag = "CodeBlock" /\ In("mermaid", elem.classes)

\* the test made on the image instead
CacheHit_onImage(elem, fs) == dst_img(elem) \in fs
\* os.path.isfile(src_file): the test that skips the regeneration
CacheHit(elem, fs) == src_file(elem) \in fs

\* pf.Para(pf.Image(pf.Str(caption), url=dst_img, title=caption))
MermaidImage(elem) ==
    Para(<<Image(<<Str(caption(elem))>>, dst_img(elem), caption(elem))>>)

AllFiles == UNION {{mermaid_dir \o "/" \o sha1(t) \o ".mmd",
                    mermaid_dir \o "/" \o sha1(t) \o ".svg"} : t \in Texts}

---------------------------------------------------------------------------
(* The filter program *)

\* the registration that is commented out
Filters_withGraphviz == <<"h1hr", "bq", "graphviz", "mermaid", "op">>
\* pf.run_filters([h1hr, bq, mermaid, op])
Filters == <<"h1hr", "bq", "mermaid", "op">>

\* a call of one of the filters that touch no file
Apply(f, elem) ==
    CASE f = "h1hr" -> h1hr(elem)
      [] f = "bq" -> bq(elem)
      [] f = "graphviz" -> graphviz(elem)
      [] f = "op" -> op(elem)

NoCall == [f |-> "", arg |-> None, ret |-> None, ev |-> <<>>,
           hadMmd |-> FALSE, hadSvg |-> FALSE, svgAtRet |-> FALSE]

PureCall(f, elem) == [NoCall EXCEPT !.f = f, !.arg = elem, !.ret = Apply(f, elem)]

\* no process has run yet; the cache is whatever earlier runs or the user left
InitDisk ==
    /\ files \in SUBSET AllFiles
    /\ dirExists \in {b \in BOOLEAN : files # {} => b}
    /\ renders = [t \in Texts |-> 0]
    /\ first = [t \in Texts |-> None]
    /\ pc = [p \in Procs |-> "idle"]
    /\ doc = [p \in Procs |-> None]
    /\ cur = [p \in Procs |-> None]
    /\ idx = [p \in Procs |-> 1]
    /\ trail = [p \in Procs |-> <<>>]
    /\ call = [p \in Procs |-> NoCall]

\* a fresh checkout: no cache directory yet
Init ==
    /\ InitDisk
    /\ files = {}
    /\ ~dirExists

\* the host starts the program on a document: one node, here
Start(p, elem) ==
    /\ pc[p] \in {"idle", "done", "raised"}
    /\ pc' = [pc EXCEPT ![p] = "run"]
    /\ doc' = [doc EXCEPT ![p] = elem]
    /\ cur' = [cur EXCEPT ![p] = elem]
    /\ idx' = [idx EXCEPT ![p] = 1]
    /\ trail' = [trail EXCEPT ![p] = <<>>]
    /\ call' = [call EXCEPT ![p] = NoCall]
    /\ UNCHANGED <<dirExists, files, renders, first>>

\* a process that runs once
StartOnce(p, elem) ==
    /\ pc[p] = "idle"
    /\ Start(p, elem)

\* run_filters calls the next filter, one of h1hr, bq, op (graphviz, were it
\* registered): None keeps the node, a node replaces it, an exception ends
\* the program
ApplyFilter(p) ==
    /\ pc[p] = "run"
    /\ idx[p] <= Len(Filters)
    /\ Filters[idx[p]] # "mermaid"
    /\ LET f == Filters[idx[p]]
           c == PureCall(f, cur[p])
       IN  /\ call' = [call EXCEPT ![p] = c]
           /\ trail' = [trail EXCEPT ![p] = Append(@, f)]
           /\ IF c.ret.tag = "Raise"
              THEN /\ pc' = [pc EXCEPT ![p] = "raised"]
                   /\ UNCHANGED <<cur, idx>>
              ELSE /\ cur' = [cur EXCEPT ![p] = IF c.ret = None THEN @ ELSE c.ret]
                   /\ idx' = [idx EXCEPT ![p] = @ + 1]
                   /\ UNCHANGED pc
    /\ UNCHANGED <<dirExists, files, renders, first, doc>>

\* run_filters calls mermaid: the test of the node and, for a mermaid block,
\* the os.path.isfile test
MermaidEnter(p) ==
    /\ pc[p] = "run"
    /\ idx[p] <= Len(Filters)
    /\ Filters[idx[p]] = "mermaid"
    /\ trail' = [trail EXCEPT ![p] = Append(@, "mermaid")]
    /\ IF ~IsMermaid(cur[p])
       THEN /\ call' = [call EXCEPT ![p] =
                           [NoCall EXCEPT !.f = "mermaid", !.arg = cur[p]]]
            /\ idx' = [idx EXCEPT ![p] = @ + 1]
            /\ UNCHANGED pc
       ELSE /\ call' = [call EXCEPT ![p] =
                           [NoCall EXCEPT !.f = "mermaid", !.arg = cur[p],
                                          !.ret = Pending,
                                          !.hadMmd = src_file(cur[p]) \in files,
                                          !.hadSvg = dst_img(cur[p]) \in files]]
            /\ pc' = [pc EXCEPT ![p] =
                         IF CacheHit(cur[p], files) THEN "m_return" ELSE "m_mkdir"]
            /\ UNCHANGED idx
    /\ UNCHANGED <<dirExists, files, renders, first, doc, cur>>

\* os.mkdir without the try: the OSError ends the call
MermaidMkdir_raises(p) ==
    /\ pc[p] = "m_mkdir"
    /\ IF dirExists
       THEN /\ call' = [call EXCEPT ![p].ev = Append(@, "mkdir:OSError"),
                                    ![p].ret = Raise("OSError")]
            /\ pc' = [pc EXCEPT ![p] = "raised"]
            /\ UNCHANGED dirExists
       ELSE /\ call' = [call EXCEPT ![p].ev = Append(@, "mkdir")]
            /\ pc' = [pc EXCEPT ![p] = "m_write"]
            /\ dirExists' = TRUE
    /\ UNCHANGED <<files, renders, first, doc, cur, idx, trail>>

\* try: os.mkdir(mermaid_dir)  except OSError: pass
\* (os.mkdir raises when the directory exists; the line written to stderr
\* after a successful mkdir changes no state and is left out)
MermaidMkdir(p) ==
    /\ pc[p] = "m_mkdir"
    /\ IF dirExists
       THEN /\ call' = [call EXCEPT ![p].ev = Append(@, "mkdir:OSError")]
            /\ UNCHANGED dirExists
       ELSE /\ call' = [call EXCEPT ![p].ev = Append(@, "mkdir")]
            /\ dirExists' = TRUE
    /\ pc' = [pc EXCEPT ![p] = "m_write"]
    /\ UNCHANGED <<files, renders, first, doc, cur, idx, trail>>

\* with open(src_file, 'w') as f: f.write(code)
MermaidWrite(p) ==
    /\ pc[p] = "m_write"
    /\ dirExists
    /\ files' = files \cup {src_file(call[p].arg)}
    /\ call' = [call EXCEPT ![p].ev = Append(@, "write")]
    /\ pc' = [pc EXCEPT ![p] = "m_mmdc"]
    /\ UNCHANGED <<dirExists, renders, first, doc, cur, idx, trail>>

\* subprocess.check_call(['mmdc', '-i', src_file, '-o', dst_img]): the
\* renderer writes the image, or is missing or exits non-zero and the call
\* raises
MermaidMmdc(p) ==
    /\ pc[p] = "m_mmdc"
    /\ renders' = [renders EXCEPT ![call[p].arg.text] = @ + 1]
    /\ \/ /\ files' = files \cup {dst_img(call[p].arg)}
          /\ call' = [call EXCEPT ![p].ev = Append(@, "mmdc")]
          /\ pc' = [pc EXCEPT ![p] = "m_return"]
       \/ /\ call' = [call EXCEPT ![p].ev = Append(@, "mmdc:raise"),
                                  ![p].ret = Raise("CalledProcessError")]
          /\ pc' = [pc EXCEPT ![p] = "raised"]
          /\ UNCHANGED files
    /\ UNCHANGED <<dirExists, first, doc, cur, idx, trail>>

\* return pf.Para(pf.Image(...)): the image replaces the code block
MermaidReturn(p) ==
    /\ pc[p] = "m_return"
    /\ LET e == call[p].arg
           k == e.text
       IN  /\ call' = [call EXCEPT ![p].ret = MermaidImage(e),
                                   ![p].svgAtRet = dst_img(e) \in files]
           /\ cur' = [cur EXCEPT ![p] = MermaidImage(e)]
           /\ first' = IF first[k] = None
                       THEN [first EXCEPT ![k] = MermaidImage(e)]
                       ELSE first
    /\ idx' = [idx EXCEPT ![p] = @ + 1]
    /\ pc' = [pc EXCEPT ![p] = "run"]
    /\ UNCHANGED <<dirExists, files, renders, doc, trail>>

\* every filter has run: the program writes the document and exits
Finish(p) ==
    /\ pc[p] = "run"
    /\ idx[p] > Len(Filters)
    /\ pc' = [pc EXCEPT ![p] = "done"]
    /\ UNCHANGED <<dirExists, files, renders, first, doc, cur, idx,
                   trail, call>>

Step(p) ==
    \/ ApplyFilter(p)
    \/ MermaidEnter(p)
    \/ MermaidMkdir(p)
    \/ MermaidWrite(p)
    \/ MermaidMmdc(p)
    \/ MermaidReturn(p)
    \/ Finish(p)

\* one filter process at a time, run after run: the documented use
Next ==
    \/ \E elem \in Nodes : Start(1, elem)
    \/ Step(1)

Spec == Init /\ [][Next]_vars

\* the same on a cache directory in any state, for the documents that reach
\* it: the code blocks, and one node of each other kind
DiskNodes ==
    CodeBlocks \cup {OpBlock, P1}
    \cup {n \in Codes : n.classes = <<"op">>}
    \cup {n \in Headers : n.attributes = <<>>}

NextDisk ==
    \/ \E elem \in DiskNodes : Start(1, elem)
    \/ Step(1)

SpecDisk == InitDisk /\ [][NextDisk]_vars

\* two filter processes on the same cache directory, each given a mermaid block
NextConc ==
    \E p \in Procs :
        \/ \E elem \in MermaidBlocks : StartOnce(p, elem)
        \/ Step(p)

SpecConc == Init /\ [][NextConc]_vars

---------------------------------------------------------------------------
(* What the claims speak of *)

Keys(a) == {a[i][1] : i \in DOMAIN a}

\* the call of filter f by process p that has just returned (or is in progress)
Called(p, f) == call[p].f = f

IsCodeBlockWith(e, c) ==
    e.tag = "CodeBlock" /\ \E i \in DOMAIN e.classes : e.classes[i] = c

\* the image path written out for each text of the model
ExpectedSvg(t) ==
    CASE t = "graph TD; A-->B" ->
             "md/mermaid-images/90bf051b9b3df160543336b9e851e6fa32b03403.svg"
      [] t = "a<b&c" ->
             "md/mermaid-images/5d2c6150c10bb45774d2f801518fb30c6b06635f.svg"

ExpectedMmd(t) ==
    CASE t = "graph TD; A-->B" ->
             "md/mermaid-images/90bf051b9b3df160543336b9e851e6fa32b03403.mmd"
      [] t = "a<b&c" ->
             "md/mermaid-images/5d2c6150c10bb45774d2f801518fb30c6b06635f.mmd"

ReturnedImage(p) == Called(p, "mermaid") /\ call[p].ret.tag = "Para"

\* the side effects of the mermaid call in progress, in order
Did(p, e) == \E i \in DOMAIN call[p].ev : call[p].ev[i] = e

---------------------------------------------------------------------------
\* C1: a mermaid block whose <sha1(text)>.svg is on disk when mermaid is
\* called is not regenerated: no cache file is written and mmdc is not run.
C1_SkipWhenSvgExists ==
    \A p \in Procs :
        (Called(p, "mermaid") /\ IsCodeBlockWith(call[p].arg, "mermaid")
            /\ call[p].hadSvg)
        => /\ ~Did(p, "write")
           /\ ~Did(p, "mmdc")
           /\ ~Did(p, "mmdc:raise")

---------------------------------------------------------------------------
\* C2 (as stated): all five filters are applied to every node of a document
\* the program has processed, and a CodeBlock with class 'graphviz' does not
\* pass through unchanged.
C2_AllFiveRegistered ==
    \A p \in Procs :
        pc[p] = "done"
        => /\ \A f \in {"h1hr", "bq", "graphviz", "mermaid", "op"} :
                  \E i \in DOMAIN trail[p] : trail[p][i] = f
           /\ IsCodeBlockWith(doc[p], "graphviz") => cur[p] # doc[p]

\* C2 (amended): exactly h1hr, bq, mermaid and op, in that order, are applied
\* to every node of a document the program has processed; graphviz is never
\* called, and a CodeBlock with class 'graphviz' and without class 'mermaid'
\* passes through unchanged.
C2_FourRegistered ==
    \A p \in Procs :
        /\ \A i \in DOMAIN trail[p] : trail[p][i] # "graphviz"
        /\ pc[p] = "done"
           => /\ trail[p] = <<"h1hr", "bq", "mermaid", "op">>
              /\ (IsCodeBlockWith(doc[p], "graphviz")
                     /\ ~IsCodeBlockWith(doc[p], "mermaid"))
                 => cur[p] = doc[p]

C2_Witness ==
    /\ pc[1] = "done"
    /\ IsCodeBlockWith(doc[1], "graphviz")
    /\ cur[1] = doc[1]

---------------------------------------------------------------------------
\* C3: h1hr returns a level-1 Header with attributes['style'] set to the
\* bottom border (any earlier style overwritten; the other attributes, the
\* level and the content as they were), and returns None for every other
\* node, which stays as it was.
C3_H1hrStylesLevelOneHeaders ==
    \A p \in Procs :
        Called(p, "h1hr")
        => LET e == call[p].arg
               r == call[p].ret
           IN  IF e.tag = "Header" /\ e.level = 1
               THEN /\ r.tag = "Header"
                    /\ r.level = 1
                    /\ r.content = e.content
                    /\ Keys(r.attributes) = Keys(e.attributes) \cup {"style"}
                    /\ Len(r.attributes) = Cardinality(Keys(r.attributes))
                    /\ \A i \in DOMAIN r.attributes :
                          r.attributes[i][2] =
                              IF r.attributes[i][1] = "style"
                              THEN "border-bottom:1px solid #cccccc"
                              ELSE Get(e.attributes, r.attributes[i][1], "")
                    /\ cur[p] = r
               ELSE /\ r = None
                    /\ cur[p] = e

C3_Witness ==
    /\ Called(1, "h1hr")
    /\ call[1].arg.tag = "Header"
    /\ call[1].arg.level = 1
    /\ call[1].arg.attributes = <<<<"style", "color:red">>, <<"lang", "en">>>>
    /\ call[1].ret.attributes =
           <<<<"style", "border-bottom:1px solid #cccccc">>, <<"lang", "en">>>>

---------------------------------------------------------------------------
\* C4: bq replaces a Div whose classes are exactly ['bq'] by a BlockQuote of
\* its content; otherwise a Div with class 'std' by a Div of the same classes
\* whose only child is a BlockQuote of the content; every other node yields
\* None and stays as it was.
C4_BqMakesBlockquotes ==
    \A p \in Procs :
        Called(p, "bq")
        => LET e == call[p].arg
               r == call[p].ret
           IN  IF e.tag = "Div" /\ e.classes = <<"bq">>
               THEN /\ r = [tag |-> "BlockQuote", content |-> e.content]
                    /\ cur[p] = r
               ELSE IF e.tag = "Div"
                       /\ \E i \in DOMAIN e.classes : e.classes[i] = "std"
               THEN /\ r.tag = "Div"
                    /\ r.classes = e.classes
                    /\ r.content =
                           <<[tag |-> "BlockQuote", content |-> e.content]>>
                    /\ cur[p] = r
               ELSE /\ r = None
                    /\ cur[p] = e

C4_Witness ==
    /\ Called(1, "bq")
    /\ call[1].arg.tag = "Div"
    /\ call[1].arg.classes = <<"bq", "std">>
    /\ call[1].ret.tag = "Div"
    /\ call[1].ret.content[1].content = <<P1, P2>>

---------------------------------------------------------------------------
\* C5: op replaces an inline Code with class 'op' by a RawInline whose text
\* is the code's text, verbatim, between '<code><span class="op">' and
\* '</span></code>', carrying nothing else of the original; every other
\* node (a CodeBlock with class 'op' too) yields None and stays as it was.
C5_OpWrapsOperatorSpans ==
    \A p \in Procs :
        Called(p, "op")
        => LET e == call[p].arg
               r == call[p].ret
           IN  IF e.tag = "Code"
                  /\ \E i \in DOMAIN e.classes : e.classes[i] = "op"
               THEN /\ r.tag = "RawInline"
                    /\ DOMAIN r = {"tag", "text", "format"}
                    /\ e.text = "a<b&c"
                       => r.text = "<code><span class=\"op\">a<b&c</span></code>"
                    /\ e.text = "graph TD; A-->B"
                       => r.text =
                            "<code><span class=\"op\">graph TD; A-->B</span></code>"
                    /\ cur[p] = r
               ELSE /\ r = None
                    /\ cur[p] = e

C5_Witness ==
    /\ Called(1, "op")
    /\ call[1].arg.tag = "Code"
    /\ call[1].arg.classes = <<"cpp", "op">>
    /\ call[1].arg.text = "a<b&c"
    /\ call[1].ret.tag = "RawInline"

---------------------------------------------------------------------------
\* C6: in mermaid an OSError of os.mkdir is swallowed and the call goes on to
\* write the .mmd file and to run mmdc; a failure of mmdc propagates, so the
\* call returns no node and the code block is not replaced.  Nothing else
\* ends a mermaid call with an exception.
C6_MkdirErrorSwallowedRendererErrorPropagates ==
    \A p \in Procs :
        (Called(p, "mermaid") /\ call[p].ev # <<>>)
        => LET ev == call[p].ev
           IN  /\ ev[1] \in {"mkdir", "mkdir:OSError"}
               /\ Len(ev) = 1 => pc[p] = "m_write"
               /\ Len(ev) >= 2 => ev[2] = "write"
               /\ Len(ev) = 2 => pc[p] = "m_mmdc"
               /\ Len(ev) >= 3 => ev[3] \in {"mmdc", "mmdc:raise"}
               /\ Len(ev) <= 3
               /\ pc[p] = "raised" <=> Did(p, "mmdc:raise")
               /\ pc[p] = "raised"
                  => /\ call[p].ret.tag = "Raise"
                     /\ cur[p] = call[p].arg

C6_Witness ==
    /\ pc[1] = "raised"
    /\ call[1].ev = <<"mkdir:OSError", "write", "mmdc:raise">>
    /\ cur[1] = call[1].arg

---------------------------------------------------------------------------
\* C7: a mermaid call on a CodeBlock with class 'mermaid' that returns
\* returns a Para holding exactly one Image, whose url is
\* <mermaid-images>/<sha1(text)>.svg and whose alt text and title are the
\* 'caption' attribute ('' when absent); the cache files are named after the
\* text alone; every other node yields None and stays as it was.
C7_MermaidReturnsCachedImage ==
    \A p \in Procs :
        Called(p, "mermaid")
        => LET e == call[p].arg
               r == call[p].ret
               cap == IF "caption" \in Keys(e.attributes) THEN "Fig" ELSE ""
           IN  IF IsCodeBlockWith(e, "mermaid")
               THEN /\ r.tag \in {"Pending", "Raise", "Para"}
                    /\ r.tag = "Para"
                       => /\ r = [tag |-> "Para", content |->
                                   << [tag |-> "Image",
                                       content |-> <<[tag |-> "Str", text |-> cap]>>,
                                       url |-> ExpectedSvg(e.text),
                                       title |-> cap] >>]
                          /\ cur[p] = r
                    /\ Did(p, "write") => ExpectedMmd(e.text) \in files
                    /\ Did(p, "mmdc") => ExpectedSvg(e.text) \in files
               ELSE /\ r = None
                    /\ cur[p] = e

C7_Witness ==
    /\ ReturnedImage(1)
    /\ call[1].arg.classes = <<"graphviz", "mermaid">>
    /\ call[1].arg.attributes = <<<<"width", "50">>, <<"caption", "Fig">>>>
    /\ first[call[1].arg.text] # None
    /\ first[call[1].arg.text] # call[1].ret
    /\ first[call[1].arg.text].content[1].url = call[1].ret.content[1].url

---------------------------------------------------------------------------
\* C8: every mermaid call that returns an image returns a url whose .svg
\* file is on disk when it returns.
C8_ReturnedImageExists ==
    \A p \in Procs : ReturnedImage(p) => call[p].svgAtRet

---------------------------------------------------------------------------
\* C9: with one process at a time and no cache file deleted, mmdc is run at
\* most once per code text; a call made when <sha1(text)>.mmd is on disk
\* creates no directory, writes no file and runs no renderer, and the image
\* it returns is the one the first returning call for that text and caption
\* returned.
C9_RenderedAtMostOnce ==
    /\ \A t \in Texts : renders[t] <= 1
    /\ \A p \in Procs :
           (Called(p, "mermaid") /\ IsCodeBlockWith(call[p].arg, "mermaid"))
           => /\ call[p].hadMmd
                 => /\ call[p].ev = <<>>
                    /\ pc[p] \in {"m_return", "run"}
              /\ (ReturnedImage(p)
                    /\ first[call[p].arg.text].content[1].title
                           = call[p].ret.content[1].title)
                 => call[p].ret = first[call[p].arg.text]

C9_Witness ==
    /\ ReturnedImage(1)
    /\ call[1].hadMmd
    /\ renders[call[1].arg.text] = 1
    /\ first[call[1].arg.text] = call[1].ret
    /\ ExpectedSvg(call[1].arg.text) \in files

---------------------------------------------------------------------------
\* C10: of two processes working on one cache directory, with no renderer
\* failure, neither returns an image whose .svg file is not yet on disk, and
\* neither fails because of the race to create the directory.
C10_NoImageBeforeSvg ==
    (\A q \in Procs : pc[q] # "raised")
    => \A p \in Procs :
           /\ ReturnedImage(p) => call[p].svgAtRet
           /\ Did(p, "mkdir:OSError") => pc[p] # "raised"

====
